---- MODULE Spec2Model ----
(***************************************************************************)
(* TennisCourt: the reservation ledger of tennis.py (class TennisCourt)    *)
(* and the interactive loop that drives it (the __main__ block).           *)
(*                                                                         *)
(* A datetime is the number of minutes since the start of proleptic        *)
(* Gregorian ordinal day 0, so that t \div MinutesPerDay is Python's       *)
(* date.toordinal() and comparisons of datetimes are comparisons of        *)
(* integers.  The ISO calendar is computed as datetime.isocalendar() does. *)
(***************************************************************************)
EXTENDS Integers, Sequences, FiniteSets, Bags, TLC

VARIABLES
    reservations,   \* TennisCourt.reservations: the in-memory ledger
    db,             \* the rows of table 'reservations': a bag of reservations
    now,            \* datetime.now()
    pc,             \* where the process is: "api" (its methods are called directly),
                    \* "setup" | "returned" (before and after one query), "start" |
                    \* "menu" | "booking" | "crashed" | "exited" (the __main__ loop)
    usr_name,       \* usr_name of the __main__ loop while a booking is in progress
    checks,         \* the checks the last booking attempt ran, in order
    last            \* the last call: its name, arguments and result, the ledger
                    \* before it and the instant it was made

vars == <<reservations, db, now, pc, usr_name, checks, last>>

-----------------------------------------------------------------------------
(* Bounds of the model *)

\* longest ledger the method-level specification builds
MaxReservations == 3

\* longest ledger a query is asked of
MaxLedger == 3

\* longest ledger the interactive loop builds
MaxBookings == 4

\* longest ledger that is exported
MaxExport == 3

-----------------------------------------------------------------------------
(* datetime: the calendar arithmetic of the standard library *)

MinutesPerDay == 24 * 60

Years == 2022..2025

IsLeap(y) == y % 4 = 0 /\ (y % 100 # 0 \/ y % 400 = 0)

DaysBeforeYear(y) == (y - 1) * 365 + (y - 1) \div 4 - (y - 1) \div 100 + (y - 1) \div 400

DaysInMonth(y, m) ==
    IF m = 2 THEN (IF IsLeap(y) THEN 29 ELSE 28)
    ELSE IF m \in {4, 6, 9, 11} THEN 30 ELSE 31

RECURSIVE DaysBeforeMonth(_, _)
DaysBeforeMonth(y, m) ==
    IF m = 1 THEN 0 ELSE DaysBeforeMonth(y, m - 1) + DaysInMonth(y, m - 1)

\* datetime(y, m, d, hh, mi) as minutes: toordinal() * 1440 + hh * 60 + mi
DateTime(y, m, d, hh, mi) ==
    (DaysBeforeYear(y) + DaysBeforeMonth(y, m) + d) * MinutesPerDay + hh * 60 + mi

\* dt + timedelta(minutes = n)
PlusMinutes(dt, n) == dt + n

ToOrdinal(dt) == dt \div MinutesPerDay

YearOf(dt) ==
    CHOOSE y \in Years :
        DaysBeforeYear(y) < ToOrdinal(dt) /\ ToOrdinal(dt) <= DaysBeforeYear(y + 1)

\* ordinal of the Monday that starts ISO week 1 of year y
IsoWeek1Monday(y) ==
    LET firstday == DaysBeforeYear(y) + 1
        firstweekday == (firstday + 6) % 7
        week1monday == firstday - firstweekday
    IN  IF firstweekday > 3 THEN week1monday + 7 ELSE week1monday

\* datetime.isocalendar(dt): the ISO year and the ISO week number
IsoCalendar(dt) ==
    LET year == YearOf(dt)
        today == ToOrdinal(dt)
        week == (today - IsoWeek1Monday(year)) \div 7
    IN  IF today < IsoWeek1Monday(year)
        THEN [year |-> year - 1,
              week |-> (today - IsoWeek1Monday(year - 1)) \div 7 + 1]
        ELSE IF week >= 52 /\ today >= IsoWeek1Monday(year + 1)
        THEN [year |-> year + 1, week |-> 1]
        ELSE [year |-> year, week |-> week + 1]

-----------------------------------------------------------------------------
(* class Reservation *)

Reservation(name, start_dt, end_dt) ==
    [name |-> name, start_date |-> start_dt, end_date |-> end_dt]

-----------------------------------------------------------------------------
(* class TennisCourt: the queries.  rs is self.reservations. *)

RECURSIVE OverlapsFrom(_, _, _, _)
OverlapsFrom(rs, i, start_dt, end_dt) ==
    IF i > Len(rs) THEN FALSE
    ELSE IF start_dt < rs[i].end_date /\ end_dt > rs[i].start_date THEN TRUE
    ELSE OverlapsFrom(rs, i + 1, start_dt, end_dt)

\* period_overlaps that looks only at where the period ends
period_overlaps_end_inside(rs, start_dt, end_dt) ==
    \E i \in 1..Len(rs) : rs[i].start_date < end_dt /\ end_dt <= rs[i].end_date

\* period_overlaps with closed comparisons: touching intervals collide
period_overlaps_closed(rs, start_dt, end_dt) ==
    \E i \in 1..Len(rs) : start_dt <= rs[i].end_date /\ end_dt >= rs[i].start_date

period_overlaps(rs, start_dt, end_dt) == OverlapsFrom(rs, 1, start_dt, end_dt)

RECURSIVE NotAvailableFrom(_, _, _)
NotAvailableFrom(rs, i, start_dt) ==
    IF i > Len(rs) THEN FALSE
    ELSE IF rs[i].start_date <= start_dt /\ start_dt < rs[i].end_date THEN TRUE
    ELSE NotAvailableFrom(rs, i + 1, start_dt)

\* date_not_available with the end included
date_not_available_closed(rs, start_dt) ==
    \E i \in 1..Len(rs) : rs[i].start_date <= start_dt /\ start_dt <= rs[i].end_date

date_not_available(rs, start_dt) == NotAvailableFrom(rs, 1, start_dt)

\* the week the code compares: isocalendar(...).week, the week number alone
WeekNo(dt) == IsoCalendar(dt).week

RECURSIVE TwoPerWeekFrom(_, _, _, _, _)
TwoPerWeekFrom(rs, i, name, week_no, counter) ==
    IF i > Len(rs) THEN FALSE
    ELSE IF name = rs[i].name /\ WeekNo(rs[i].start_date) = week_no
         THEN IF counter + 1 > 1 THEN TRUE
              ELSE TwoPerWeekFrom(rs, i + 1, name, week_no, counter + 1)
         ELSE TwoPerWeekFrom(rs, i + 1, name, week_no, counter)

two_reservations_per_week(rs, name, start_dt) ==
    TwoPerWeekFrom(rs, 1, name, WeekNo(start_dt), 0)

RECURSIVE NextAvailableFrom(_, _, _)
NextAvailableFrom(rs, i, closest_time) ==
    IF i > Len(rs) THEN closest_time
    ELSE IF rs[i].start_date >= PlusMinutes(closest_time, 30) THEN closest_time
    ELSE IF closest_time <= rs[i].end_date
         THEN NextAvailableFrom(rs, i + 1, rs[i].end_date)
         ELSE NextAvailableFrom(rs, i + 1, closest_time)

\* next_available_datetime that is content with 15 free minutes
RECURSIVE NextAvailableQuarterFrom(_, _, _)
NextAvailableQuarterFrom(rs, i, closest_time) ==
    IF i > Len(rs) THEN closest_time
    ELSE IF rs[i].start_date >= PlusMinutes(closest_time, 15) THEN closest_time
    ELSE IF closest_time <= rs[i].end_date
         THEN NextAvailableQuarterFrom(rs, i + 1, rs[i].end_date)
         ELSE NextAvailableQuarterFrom(rs, i + 1, closest_time)

next_available_quarter(rs, start_dt) == NextAvailableQuarterFrom(rs, 1, start_dt)

\* next_available_datetime that asks for more than 30 free minutes
RECURSIVE NextAvailableStrictFrom(_, _, _)
NextAvailableStrictFrom(rs, i, closest_time) ==
    IF i > Len(rs) THEN closest_time
    ELSE IF rs[i].start_date > PlusMinutes(closest_time, 30) THEN closest_time
    ELSE IF closest_time <= rs[i].end_date
         THEN NextAvailableStrictFrom(rs, i + 1, rs[i].end_date)
         ELSE NextAvailableStrictFrom(rs, i + 1, closest_time)

next_available_strict(rs, start_dt) == NextAvailableStrictFrom(rs, 1, start_dt)

next_available_datetime(rs, start_dt) == NextAvailableFrom(rs, 1, start_dt)

periods == <<30, 60, 90>>

RECURSIVE AvailablePeriodsFrom(_, _, _, _)
AvailablePeriodsFrom(rs, k, start_dt, avl_periods) ==
    IF k > Len(periods) THEN avl_periods
    ELSE IF period_overlaps(rs, start_dt, PlusMinutes(start_dt, periods[k]))
         THEN avl_periods
         ELSE AvailablePeriodsFrom(rs, k + 1, start_dt, Append(avl_periods, periods[k]))

\* available_periods that appends the period before it tests it
RECURSIVE AvailablePeriodsLateFrom(_, _, _, _)
AvailablePeriodsLateFrom(rs, k, start_dt, avl_periods) ==
    IF k > Len(periods) THEN avl_periods
    ELSE IF period_overlaps(rs, start_dt, PlusMinutes(start_dt, periods[k]))
         THEN Append(avl_periods, periods[k])
         ELSE AvailablePeriodsLateFrom(rs, k + 1, start_dt, Append(avl_periods, periods[k]))

available_periods_late(rs, start_dt) == AvailablePeriodsLateFrom(rs, 1, start_dt, <<>>)

available_periods(rs, start_dt) == AvailablePeriodsFrom(rs, 1, start_dt, <<>>)

-----------------------------------------------------------------------------
(* class TennisCourt: the mutators *)

\* list.insert(idx, x) with idx counted from 0: x lands before rs[idx + 1]
ListInsert(rs, idx, x) ==
    SubSeq(rs, 1, idx) \o <<x>> \o SubSeq(rs, idx + 1, Len(rs))

\* the list without its i-th element
ListRemoveAt(rs, i) == SubSeq(rs, 1, i - 1) \o SubSeq(rs, i + 1, Len(rs))

RECURSIVE MakeFrom(_, _, _, _, _)
MakeFrom(rs, i, name, start_dt, end_dt) ==
    IF i > Len(rs) THEN Append(rs, Reservation(name, start_dt, end_dt))
    ELSE IF rs[i].start_date > start_dt
         THEN ListInsert(rs, i - 1, Reservation(name, start_dt, end_dt))
         ELSE MakeFrom(rs, i + 1, name, start_dt, end_dt)

\* make_reservation that stops at the first reservation that starts at or after
\* start_dt
RECURSIVE MakeBeforeEqualFrom(_, _, _, _, _)
MakeBeforeEqualFrom(rs, i, name, start_dt, end_dt) ==
    IF i > Len(rs) THEN Append(rs, Reservation(name, start_dt, end_dt))
    ELSE IF rs[i].start_date >= start_dt
         THEN ListInsert(rs, i - 1, Reservation(name, start_dt, end_dt))
         ELSE MakeBeforeEqualFrom(rs, i + 1, name, start_dt, end_dt)

make_reservation_before_equal(rs, name, start_dt, end_dt) ==
    MakeBeforeEqualFrom(rs, 1, name, start_dt, end_dt)

\* make_reservation that always appends
make_reservation_append(rs, name, start_dt, end_dt) ==
    Append(rs, Reservation(name, start_dt, end_dt))

\* the ledger after make_reservation(name, start_dt, end_dt)
make_reservation(rs, name, start_dt, end_dt) == MakeFrom(rs, 1, name, start_dt, end_dt)

RECURSIVE CancelFrom(_, _, _, _)
CancelFrom(rs, i, name, start_dt) ==
    IF i > Len(rs) THEN [ret |-> FALSE, reservations |-> rs]
    ELSE IF name = rs[i].name /\ start_dt = rs[i].start_date
         THEN [ret |-> TRUE, reservations |-> ListRemoveAt(rs, i)]
         ELSE CancelFrom(rs, i + 1, name, start_dt)

\* cancel_reservation that removes the last match instead of the first
cancel_reservation_last(rs, name, start_dt) ==
    LET M == {i \in 1..Len(rs) : name = rs[i].name /\ start_dt = rs[i].start_date}
    IN  IF M = {} THEN [ret |-> FALSE, reservations |-> rs]
        ELSE [ret |-> TRUE,
              reservations |-> ListRemoveAt(rs, CHOOSE i \in M : \A j \in M : j <= i)]

\* cancel_reservation that matches the start alone
cancel_reservation_by_start(rs, name, start_dt) ==
    LET M == {i \in 1..Len(rs) : start_dt = rs[i].start_date}
    IN  IF M = {} THEN [ret |-> FALSE, reservations |-> rs]
        ELSE [ret |-> TRUE,
              reservations |-> ListRemoveAt(rs, CHOOSE i \in M : \A j \in M : i <= j)]

\* cancel_reservation that matches the name alone
cancel_reservation_by_name(rs, name, start_dt) ==
    LET M == {i \in 1..Len(rs) : name = rs[i].name}
    IN  IF M = {} THEN [ret |-> FALSE, reservations |-> rs]
        ELSE [ret |-> TRUE,
              reservations |-> ListRemoveAt(rs, CHOOSE i \in M : \A j \in M : i <= j)]

\* the value cancel_reservation(name, start_dt) returns and the ledger it leaves
cancel_reservation(rs, name, start_dt) == CancelFrom(rs, 1, name, start_dt)

-----------------------------------------------------------------------------
(* class TennisCourt: the exports *)

\* the fields of a datetime
MonthOf(dt) ==
    LET y == YearOf(dt)
        n == ToOrdinal(dt) - DaysBeforeYear(y)
    IN  CHOOSE m \in 1..12 :
            DaysBeforeMonth(y, m) < n /\ n <= DaysBeforeMonth(y, m) + DaysInMonth(y, m)

DayOf(dt) ==
    ToOrdinal(dt) - DaysBeforeYear(YearOf(dt)) - DaysBeforeMonth(YearOf(dt), MonthOf(dt))

HourOf(dt) == (dt % MinutesPerDay) \div 60

MinuteOf(dt) == dt % 60

\* dt.date(), as the ordinal of the day
DateOf(dt) == ToOrdinal(dt)

\* date(y, m, d), as the ordinal of the day
Date(y, m, d) == DaysBeforeYear(y) + DaysBeforeMonth(y, m) + d

\* dt.strftime(format): the text, as the numbers its zero-padded fields spell,
\* in the order of the format
strftime(dt, format) ==
    IF format = "%d.%m.%Y %H:%M"
    THEN <<DayOf(dt), MonthOf(dt), YearOf(dt), HourOf(dt), MinuteOf(dt)>>
    ELSE IF format = "%d.%m.%Y"
    THEN <<DayOf(dt), MonthOf(dt), YearOf(dt)>>
    ELSE <<HourOf(dt), MinuteOf(dt)>>       \* "%H:%M"

\* the filter of save_schedule applied to the day the reservation ends
filtered_by_end_date(rs, start_date, end_date) ==
    SelectSeq(rs, LAMBDA rsvn :
        start_date <= DateOf(rsvn.end_date) /\ DateOf(rsvn.end_date) <= end_date)

\* [rsvn for rsvn in self.reservations if start_date <= rsvn.start_date.date() <= end_date]
filtered_reservations(rs, start_date, end_date) ==
    SelectSeq(rs, LAMBDA rsvn :
        start_date <= DateOf(rsvn.start_date) /\ DateOf(rsvn.start_date) <= end_date)

fieldnames == <<"name", "start_date", "end_date">>

\* the row of the csv file that writes the start in both timestamp columns
csv_row_start_twice(rsvn) ==
    [name |-> rsvn.name,
     start_date |-> strftime(rsvn.start_date, "%d.%m.%Y %H:%M"),
     end_date |-> strftime(rsvn.start_date, "%d.%m.%Y %H:%M")]

\* the row writer.writerow writes for a reservation
csv_row(rsvn) ==
    [name |-> rsvn.name,
     start_date |-> strftime(rsvn.start_date, "%d.%m.%Y %H:%M"),
     end_date |-> strftime(rsvn.end_date, "%d.%m.%Y %H:%M")]

RECURSIVE CsvRowsFrom(_, _, _)
CsvRowsFrom(filtered, i, rows) ==
    IF i > Len(filtered) THEN rows
    ELSE CsvRowsFrom(filtered, i + 1, Append(rows, csv_row(filtered[i])))

\* the entry of the json file for a reservation
appointment(rsvn) ==
    [name |-> rsvn.name,
     start_time |-> strftime(rsvn.start_date, "%H:%M"),
     end_time |-> strftime(rsvn.end_date, "%H:%M")]

\* schedule_by_date, a dict in insertion order: a sequence of keys with their
\* lists.  The loop appends to the list of day_date, or adds the key at the end.
RECURSIVE ScheduleByDateFrom(_, _, _)
ScheduleByDateFrom(filtered, i, schedule_by_date) ==
    IF i > Len(filtered) THEN schedule_by_date
    ELSE LET day_date == strftime(filtered[i].start_date, "%d.%m.%Y")
             K == {k \in 1..Len(schedule_by_date) : schedule_by_date[k].key = day_date}
         IN  ScheduleByDateFrom(filtered, i + 1,
                 IF K = {}
                 THEN Append(schedule_by_date,
                             [key |-> day_date, value |-> <<appointment(filtered[i])>>])
                 ELSE [k \in 1..Len(schedule_by_date) |->
                          IF k \in K
                          THEN [schedule_by_date[k] EXCEPT
                                   !.value = Append(@, appointment(filtered[i]))]
                          ELSE schedule_by_date[k]])

\* what save_schedule(start_dt, end_dt, file_format, ...) writes to the file: the
\* header and the rows of a csv file, the object of a json file, or no file
save_schedule(rs, start_dt, end_dt, file_format) ==
    LET filtered == filtered_reservations(rs, start_dt, end_dt)
    IN  IF file_format = "csv"
        THEN [file |-> "csv", header |-> fieldnames, rows |-> CsvRowsFrom(filtered, 1, <<>>),
              object |-> <<>>]
        ELSE IF file_format = "json"
        THEN [file |-> "json", header |-> <<>>, rows |-> <<>>,
              object |-> ScheduleByDateFrom(filtered, 1, <<>>)]
        ELSE [file |-> "none", header |-> <<>>, rows |-> <<>>, object |-> <<>>]

-----------------------------------------------------------------------------
(* persistence: table 'reservations' *)

IsSortedByStart(rs) ==
    \A i \in 1..(Len(rs) - 1) : rs[i].start_date <= rs[i + 1].start_date

RECURSIVE SeqsOver(_, _)
SeqsOver(S, n) ==
    IF n = 0 THEN {<<>>}
    ELSE {Append(s, x) : s \in SeqsOver(S, n - 1), x \in S}

\* query(Reservations).order_by(Reservations.start_date).all(): every row, in
\* ascending start order; the order of rows with equal starts is the store's
OrderedByStart(rows) ==
    {s \in SeqsOver(BagToSet(rows), BagCardinality(rows)) :
        /\ \A r \in BagToSet(rows) :
               Cardinality({i \in 1..Len(s) : s[i] = r}) = CopiesIn(r, rows)
        /\ IsSortedByStart(s)}

-----------------------------------------------------------------------------
(* The inputs the model draws *)

Names == {"John", "john"}

SunW20 == DateTime(2023, 5, 21, 23, 30)    \* Sunday, ISO week 20 of 2023
MonW21 == DateTime(2023, 5, 22, 0, 0)      \* Monday, ISO week 21 of 2023
MonW21b == DateTime(2023, 5, 22, 0, 30)
MonW21c == DateTime(2023, 5, 22, 1, 15)
MonW21y24 == DateTime(2024, 5, 20, 0, 0)   \* Monday, ISO week 21 of 2024

Instants == {SunW20, MonW21, MonW21b, MonW21c, MonW21y24}

\* the starts the method-level specification inserts and cancels
LedgerInstants == {SunW20, MonW21, MonW21b}

\* the starts of the reservations of an exported ledger
ExportInstants == {SunW20, MonW21, MonW21y24}

\* the days a schedule is exported from and to
ExportDates == {Date(2023, 5, 21), Date(2023, 5, 22), Date(2024, 5, 20)}

\* the file formats save_schedule is asked for: the two it knows and another
FileFormats == {"csv", "json", "txt"}

\* lengths of the reservations inserted through the methods
Durations == {30, 90}

\* tables the store may hold when the process starts
InitialTables ==
    { EmptyBag,
      SetToBag({ Reservation("John", MonW21b, PlusMinutes(MonW21b, 30)),
                 Reservation("john", SunW20, PlusMinutes(SunW20, 30)) }) }

\* a call that does not follow a make_reservation it could undo
NoMade == [is |-> FALSE, before |-> <<>>, end_dt |-> 0]

NoCall ==
    [op |-> "none", name |-> "", start_dt |-> 0, end_dt |-> 0, ret |-> FALSE,
     before |-> <<>>, repeated |-> FALSE, at |-> 0, requested |-> 0, made |-> NoMade]

Call(op, name, start_dt, end_dt, ret) ==
    [op |-> op, name |-> name, start_dt |-> start_dt, end_dt |-> end_dt,
     ret |-> ret, before |-> reservations, repeated |-> FALSE, at |-> now,
     requested |-> start_dt, made |-> NoMade]

\* the call comes right after make_reservation(name, start_dt, ...): that call's
\* end and the ledger from before it
Made(name, start_dt) ==
    IF last.op = "make_reservation" /\ last.name = name /\ last.start_dt = start_dt
    THEN [is |-> TRUE, before |-> last.before, end_dt |-> last.end_dt]
    ELSE NoMade

\* the call repeats, with the same arguments, the call before it, which returned true
Repeats(op, name, start_dt) ==
    last.op = op /\ last.name = name /\ last.start_dt = start_dt /\ last.ret = TRUE

-----------------------------------------------------------------------------
(* Method-level specification: a caller invokes the mutators of one        *)
(* TennisCourt in any order with any arguments, as test_tennis.py does.    *)

Init ==
    /\ reservations = <<>>
    /\ db \in InitialTables
    /\ now = DateTime(2023, 5, 21, 20, 0)
    /\ pc = "api"
    /\ usr_name = ""
    /\ checks = <<>>
    /\ last = NoCall

CallMakeReservation ==
    \E name \in Names, start_dt \in LedgerInstants, d \in Durations :
        /\ pc = "api"
        /\ Len(reservations) < MaxReservations
        /\ reservations' =
               make_reservation(reservations, name, start_dt, PlusMinutes(start_dt, d))
        /\ last' = Call("make_reservation", name, start_dt, PlusMinutes(start_dt, d), FALSE)
        /\ UNCHANGED <<db, now, pc, usr_name, checks>>

CallCancelReservation ==
    \E name \in Names, start_dt \in LedgerInstants :
        LET r == cancel_reservation(reservations, name, start_dt)
        IN  /\ pc = "api"
            /\ reservations' = r.reservations
            /\ last' = [Call("cancel_reservation", name, start_dt, 0, r.ret) EXCEPT
                           !.repeated = Repeats("cancel_reservation", name, start_dt),
                           !.made = Made(name, start_dt)]
            /\ UNCHANGED <<db, now, pc, usr_name, checks>>

CallLoadSchedule ==
    /\ pc = "api"
    /\ reservations' \in OrderedByStart(db)
    /\ last' = Call("load_schedule_from_database", "", 0, 0, FALSE)
    /\ UNCHANGED <<db, now, pc, usr_name, checks>>

Next ==
    \/ CallMakeReservation
    \/ CallCancelReservation
    \/ CallLoadSchedule

Spec == Init /\ [][Next]_vars

-----------------------------------------------------------------------------------------------------------------------------------------------------
(* Query specification: a caller fills the ledger of one TennisCourt with  *)
(* make_reservation, then asks it one query, with any arguments.           *)

InitQuery ==
    /\ reservations = <<>>
    /\ db = EmptyBag
    /\ now = DateTime(2023, 5, 21, 20, 0)
    /\ pc = "setup"
    /\ usr_name = ""
    /\ checks = <<>>
    /\ last = NoCall

SetupMakeReservation ==
    \E name \in Names, start_dt \in Instants, d \in Durations :
        /\ pc = "setup"
        /\ Len(reservations) < MaxLedger
        /\ reservations' =
               make_reservation(reservations, name, start_dt, PlusMinutes(start_dt, d))
        /\ UNCHANGED <<db, now, pc, usr_name, checks, last>>

Query(call) ==
    /\ pc = "setup"
    /\ pc' = "returned"
    /\ last' = call
    /\ UNCHANGED <<reservations, db, now, usr_name, checks>>

CallPeriodOverlaps ==
    \E start_dt \in Instants, d \in Durations :
        Query(Call("period_overlaps", "", start_dt, PlusMinutes(start_dt, d),
                   period_overlaps(reservations, start_dt, PlusMinutes(start_dt, d))))

CallDateNotAvailable ==
    \E start_dt \in Instants :
        Query(Call("date_not_available", "", start_dt, 0,
                   date_not_available(reservations, start_dt)))

CallTwoReservationsPerWeek ==
    \E name \in Names, start_dt \in Instants :
        Query(Call("two_reservations_per_week", name, start_dt, 0,
                   two_reservations_per_week(reservations, name, start_dt)))

CallNextAvailableDatetime ==
    \E start_dt \in Instants :
        Query(Call("next_available_datetime", "", start_dt, 0,
                   next_available_datetime(reservations, start_dt)))

CallAvailablePeriods ==
    \E start_dt \in Instants :
        Query(Call("available_periods", "", start_dt, 0,
                   available_periods(reservations, start_dt)))

NextQuery ==
    \/ SetupMakeReservation
    \/ CallPeriodOverlaps
    \/ CallDateNotAvailable
    \/ CallTwoReservationsPerWeek
    \/ CallNextAvailableDatetime
    \/ CallAvailablePeriods

SpecQuery == InitQuery /\ [][NextQuery]_vars

-----------------------------------------------------------------------------
(* Export specification: a caller fills the ledger of one TennisCourt with *)
(* make_reservation, then saves the schedule of a range of days once.      *)

InitExport == InitQuery

ExportSetup ==
    \E name \in Names, start_dt \in ExportInstants, d \in Durations :
        /\ pc = "setup"
        /\ Len(reservations) < MaxExport
        /\ reservations' =
               make_reservation(reservations, name, start_dt, PlusMinutes(start_dt, d))
        /\ UNCHANGED <<db, now, pc, usr_name, checks, last>>

\* save_schedule; the record of the call keeps the file format as its name
CallSaveSchedule ==
    \E start_dt \in ExportDates, end_dt \in ExportDates, file_format \in FileFormats :
        Query(Call("save_schedule", file_format, start_dt, end_dt,
                   save_schedule(reservations, start_dt, end_dt, file_format)))

NextExport ==
    \/ ExportSetup
    \/ CallSaveSchedule

SpecExport == InitExport /\ [][NextExport]_vars

-----------------------------------------------------------------------------------------------------------------------------------------------------
(* The interactive loop: the input functions *)

\* what the user types at a date-and-time prompt: whether it has the shape
\* dd.mm.yyyy hh:mm, and its fields
Typed(d, m, y, hh, mi) ==
    [shaped |-> TRUE, d |-> d, m |-> m, y |-> y, hh |-> hh, mi |-> mi]

Unshaped == [shaped |-> FALSE, d |-> 0, m |-> 0, y |-> 0, hh |-> 0, mi |-> 0]

DatetimeInputs ==
    { Typed(21, 5, 2023, 23, 30), Typed(22, 5, 2023, 0, 0), Typed(22, 5, 2023, 0, 30),
      Typed(30, 2, 2023, 12, 0), Unshaped }

\* what the user types at the name prompt
NameInputs == {"John", ""}

\* what the user types at the period prompt: a number or not
PeriodInputs ==
    {[numeric |-> TRUE, value |-> v] : v \in {30, 45, 60, 90}}
        \cup {[numeric |-> FALSE, value |-> 0]}

AgreementInputs == {"yes", "YES", "no"}

\* the instants datetime.now() shows as time passes
NowValues ==
    { DateTime(2023, 5, 21, 20, 0), DateTime(2023, 5, 21, 22, 59),
      DateTime(2023, 5, 21, 23, 0) }

\* an Optional: None, or Some(v)
None == [none |-> TRUE, value |-> 0]
Some(v) == [none |-> FALSE, value |-> v]

name_validation(typed) == IF typed = "" THEN None ELSE Some(typed)

\* strptime(typed, "%d.%m.%Y %H:%M") raises ValueError
StrptimeFails(typed) ==
    \/ typed.m \notin 1..12
    \/ typed.d \notin 1..DaysInMonth(typed.y, typed.m)
    \/ typed.hh \notin 0..23
    \/ typed.mi \notin 0..59

datetime_validation(typed) ==
    IF typed.shaped /\ ~StrptimeFails(typed)
    THEN Some(DateTime(typed.y, typed.m, typed.d, typed.hh, typed.mi))
    ELSE None

\* period_validation that accepts every period of the menu, offered or not
period_validation_any(avl_periods, typed) ==
    IF typed.numeric /\ \E k \in 1..Len(periods) : periods[k] = typed.value
    THEN Some(typed.value)
    ELSE None

period_validation(avl_periods, typed) ==
    IF typed.numeric /\ \E k \in 1..Len(avl_periods) : avl_periods[k] = typed.value
    THEN Some(typed.value)
    ELSE None

\* str.lower() of the answers the model types
Lower(answer) == IF answer = "YES" THEN "yes" ELSE answer

\* one_hour_from_now_or_less that lets a start exactly one hour ahead through
one_hour_from_now_strict(start_dt) == PlusMinutes(start_dt, 0 - 60) < now

one_hour_from_now_or_less(start_dt) == PlusMinutes(start_dt, 0 - 60) <= now

-----------------------------------------------------------------------------
(* persistence *)

\* add_to_database: session.add(...); session.commit()
add_to_database(rows, name, start_dt, end_dt) ==
    rows (+) SetToBag({Reservation(name, start_dt, end_dt)})

\* the distinct rows filter_by(name = name, start_date = start_dt) selects
RowsMatching(rows, name, start_dt) ==
    {r \in BagToSet(rows) : r.name = name /\ r.start_date = start_dt}

\* session.commit(): the store records the change, or it is unreachable and
\* the call raises
StoreOutcomes == {"commits", "raises"}

\* subtract_from_database that filters by the name alone and deletes every match
subtract_from_database_by_name(rows, name, start_dt) ==
    LET M == {r \in BagToSet(rows) : r.name = name}
    IN  IF M # {}
        THEN [raised |-> FALSE,
              rows |-> rows (-) [r \in M |-> CopiesIn(r, rows)]]
        ELSE [raised |-> TRUE, rows |-> rows]

\* subtract_from_database: .one() raises unless exactly one row matches
subtract_from_database(rows, name, start_dt) ==
    LET M == RowsMatching(rows, name, start_dt)
    IN  IF Cardinality(M) = 1 /\ \A r \in M : CopiesIn(r, rows) = 1
        THEN [raised |-> FALSE, rows |-> rows (-) SetToBag(M)]
        ELSE [raised |-> TRUE, rows |-> rows]

-----------------------------------------------------------------------------
(* The interactive loop: the __main__ block *)

InitMain ==
    /\ reservations = <<>>
    /\ db \in InitialTables
    /\ now = DateTime(2023, 5, 21, 20, 0)
    /\ pc = "start"
    /\ usr_name = ""
    /\ checks = <<>>
    /\ last = NoCall

\* court.load_schedule_from_database() before the loop
Startup ==
    /\ pc = "start"
    /\ reservations' \in OrderedByStart(db)
    /\ pc' = "menu"
    /\ UNCHANGED <<db, now, usr_name, checks, last>>

\* time passes while the process waits for input
Tick ==
    /\ pc \in {"menu", "booking"}
    /\ \E t \in NowValues : t > now /\ now' = t
    /\ UNCHANGED <<reservations, db, pc, usr_name, checks, last>>

\* menu choice 1 up to the inner loop: the name prompt
MenuMake ==
    \E typed \in NameInputs :
        /\ pc = "menu"
        /\ IF name_validation(typed).none
           THEN UNCHANGED <<pc, usr_name>>
           ELSE pc' = "booking" /\ usr_name' = name_validation(typed).value
        /\ checks' = <<>>
        /\ last' = Call("name_validation", typed, 0, 0, ~name_validation(typed).none)
        /\ UNCHANGED <<reservations, db, now>>

\* what one pass of the inner loop of choice 1 did: its outcome, the checks it
\* ran, the reservation it made, the ledger and the table it leaves, and where
\* the loop goes next
Pass(outcome, ran, requested, start_dt, end_dt, rs, rows, next_pc) ==
    [outcome |-> outcome, ran |-> ran, requested |-> requested, start_dt |-> start_dt,
     end_dt |-> end_dt, rs |-> rs, rows |-> rows, pc |-> next_pc]

\* one pass of the inner loop of choice 1 that tests the lead time before the quota
BookingLeadTimeFirst(rs, rows, name, typed, answer, period) ==
    LET usr_date == datetime_validation(typed)
        requested == usr_date.value
        occupied == date_not_available(rs, requested)
        start == IF occupied THEN next_available_datetime(rs, requested) ELSE requested
        avl == available_periods(rs, start)
        chosen_period == period_validation(avl, period)
        usr_end == PlusMinutes(start, chosen_period.value)
        c1 == <<"datetime_validation">>
        c2 == Append(c1, "one_hour_from_now_or_less")
        c3 == Append(c2, "two_reservations_per_week")
        c4 == Append(c3, "date_not_available")
        c5 == IF occupied THEN c4 \o <<"next_available_datetime", "agreement">> ELSE c4
        c6 == c5 \o <<"available_periods", "period_validation">>
        c7 == c6 \o <<"make_reservation", "add_to_database">>
    IN  IF usr_date.none
        THEN Pass("invalid_datetime", c1, 0, 0, 0, rs, rows, "menu")
        ELSE IF one_hour_from_now_or_less(requested)
        THEN Pass("lead_time", c2, requested, requested, 0, rs, rows, "menu")
        ELSE IF two_reservations_per_week(rs, name, requested)
        THEN Pass("quota", c3, requested, requested, 0, rs, rows, "menu")
        ELSE IF occupied /\ Lower(answer) # "yes"
        THEN Pass("declined", c5, requested, start, 0, rs, rows, "booking")
        ELSE IF chosen_period.none
        THEN Pass("invalid_period", c6, requested, start, 0, rs, rows, "menu")
        ELSE Pass("booked", c7, requested, start, usr_end,
                  make_reservation(rs, name, start, usr_end),
                  add_to_database(rows, name, start, usr_end), "menu")

\* one pass of the inner loop of choice 1 that leaves the loop when the offered
\* instant is declined
BookingDeclineToMenu(rs, rows, name, typed, answer, period) ==
    LET usr_date == datetime_validation(typed)
        requested == usr_date.value
        occupied == date_not_available(rs, requested)
        start == IF occupied THEN next_available_datetime(rs, requested) ELSE requested
        avl == available_periods(rs, start)
        chosen_period == period_validation(avl, period)
        usr_end == PlusMinutes(start, chosen_period.value)
        c1 == <<"datetime_validation">>
        c2 == Append(c1, "two_reservations_per_week")
        c3 == Append(c2, "one_hour_from_now_or_less")
        c4 == Append(c3, "date_not_available")
        c5 == IF occupied THEN c4 \o <<"next_available_datetime", "agreement">> ELSE c4
        c6 == c5 \o <<"available_periods", "period_validation">>
        c7 == c6 \o <<"make_reservation", "add_to_database">>
    IN  IF usr_date.none
        THEN Pass("invalid_datetime", c1, 0, 0, 0, rs, rows, "menu")
        ELSE IF two_reservations_per_week(rs, name, requested)
        THEN Pass("quota", c2, requested, requested, 0, rs, rows, "menu")
        ELSE IF one_hour_from_now_or_less(requested)
        THEN Pass("lead_time", c3, requested, requested, 0, rs, rows, "menu")
        ELSE IF occupied /\ Lower(answer) # "yes"
        THEN Pass("declined", c5, requested, start, 0, rs, rows, "menu")
        ELSE IF chosen_period.none
        THEN Pass("invalid_period", c6, requested, start, 0, rs, rows, "menu")
        ELSE Pass("booked", c7, requested, start, usr_end,
                  make_reservation(rs, name, start, usr_end),
                  add_to_database(rows, name, start, usr_end), "menu")

\* one pass of the inner loop of choice 1, for the name, the ledger rs and the
\* table rows, with what the user types at its prompts
Booking(rs, rows, name, typed, answer, period) ==
    LET usr_date == datetime_validation(typed)
        requested == usr_date.value
        occupied == date_not_available(rs, requested)
        start == IF occupied THEN next_available_datetime(rs, requested) ELSE requested
        avl == available_periods(rs, start)
        chosen_period == period_validation(avl, period)
        usr_end == PlusMinutes(start, chosen_period.value)
        c1 == <<"datetime_validation">>
        c2 == Append(c1, "two_reservations_per_week")
        c3 == Append(c2, "one_hour_from_now_or_less")
        c4 == Append(c3, "date_not_available")
        c5 == IF occupied THEN c4 \o <<"next_available_datetime", "agreement">> ELSE c4
        c6 == c5 \o <<"available_periods", "period_validation">>
        c7 == c6 \o <<"make_reservation", "add_to_database">>
    IN  IF usr_date.none
        THEN Pass("invalid_datetime", c1, 0, 0, 0, rs, rows, "menu")
        ELSE IF two_reservations_per_week(rs, name, requested)
        THEN Pass("quota", c2, requested, requested, 0, rs, rows, "menu")
        ELSE IF one_hour_from_now_or_less(requested)
        THEN Pass("lead_time", c3, requested, requested, 0, rs, rows, "menu")
        ELSE IF occupied /\ Lower(answer) # "yes"
        THEN Pass("declined", c5, requested, start, 0, rs, rows, "booking")
        ELSE IF chosen_period.none
        THEN Pass("invalid_period", c6, requested, start, 0, rs, rows, "menu")
        ELSE Pass("booked", c7, requested, start, usr_end,
                  make_reservation(rs, name, start, usr_end),
                  add_to_database(rows, name, start, usr_end), "menu")

\* one pass of the inner loop of choice 1.  An exception of add_to_database is
\* caught nowhere: the process ends, after make_reservation has changed the ledger.
BookAttempt ==
    /\ pc = "booking"
    /\ Len(reservations) < MaxBookings
    /\ \E p \in {Booking(reservations, db, usr_name, typed, answer, period) :
                    typed \in DatetimeInputs, answer \in AgreementInputs,
                    period \in PeriodInputs} :
       \E commit \in IF p.outcome = "booked" THEN StoreOutcomes ELSE {"commits"} :
           LET raised == commit = "raises"
           IN  /\ checks' = p.ran
               /\ last' = [Call("book", usr_name, p.start_dt, p.end_dt,
                                 IF raised THEN "persistence_failed" ELSE p.outcome)
                              EXCEPT !.requested = p.requested,
                                     !.repeated = (last.op = "book" /\ last.ret = "declined")]
               /\ reservations' = p.rs
               /\ db' = IF raised THEN db ELSE p.rows
               /\ pc' = IF raised THEN "crashed" ELSE p.pc
               /\ usr_name' = IF p.pc = "booking" THEN usr_name ELSE ""
    /\ UNCHANGED now

\* the cancellation of choice 2 with what the user types at its prompts: its
\* outcome, the ledger and the table it leaves, and whether it raised
Cancellation(rs, rows, typed_name, typed) ==
    LET name == name_validation(typed_name)
        usr_date == datetime_validation(typed)
        r == cancel_reservation(rs, name.value, usr_date.value)
        s == subtract_from_database(rows, name.value, usr_date.value)
        Left(outcome) ==
            [outcome |-> outcome, name |-> typed_name, start_dt |-> usr_date.value,
             rs |-> rs, rows |-> rows, raised |-> FALSE]
    IN  IF name.none THEN [Left("invalid_name") EXCEPT !.start_dt = 0]
        ELSE IF usr_date.none THEN Left("invalid_datetime")
        ELSE IF one_hour_from_now_or_less(usr_date.value) THEN Left("lead_time")
        ELSE IF r.ret
        THEN [outcome |-> "cancelled", name |-> typed_name, start_dt |-> usr_date.value,
              rs |-> r.reservations, rows |-> s.rows, raised |-> s.raised]
        ELSE Left("not_found")

\* menu choice 2: the cancellation.  An exception of subtract_from_database is
\* caught nowhere: the process ends, after cancel_reservation has changed the ledger.
MenuCancel ==
    /\ pc = "menu"
    /\ \E c \in {Cancellation(reservations, db, typed_name, typed) :
                    typed_name \in NameInputs, typed \in DatetimeInputs} :
       \E commit \in IF c.outcome = "cancelled" THEN StoreOutcomes ELSE {"commits"} :
           LET raised == c.raised \/ commit = "raises"
           IN  /\ last' = Call("cancel", c.name, c.start_dt, 0,
                                IF raised THEN "persistence_failed" ELSE c.outcome)
               /\ reservations' = c.rs
               /\ db' = IF raised THEN db ELSE c.rows
               /\ pc' = IF raised THEN "crashed" ELSE "menu"
    /\ checks' = <<>>
    /\ UNCHANGED <<now, usr_name>>

\* menu choice 5
MenuExit ==
    /\ pc = "menu"
    /\ pc' = "exited"
    /\ UNCHANGED <<reservations, db, now, usr_name, checks, last>>

NextMain ==
    \/ Startup
    \/ Tick
    \/ MenuMake
    \/ BookAttempt
    \/ MenuCancel
    \/ MenuExit

SpecMain == InitMain /\ [][NextMain]_vars

-----
(* Claims about the queries, checked under SpecQuery *)

\* the minutes [start_dt, end_dt) and the reservation r have a minute in common
SharesMinute(r, start_dt, end_dt) ==
    \E m \in start_dt..(end_dt - 1) : r.start_date <= m /\ m < r.end_date

\* C1: period_overlaps(start, end) is true exactly when some reservation r of the
\* ledger has start < r.end and end > r.start; an interval that shares no minute
\* with any reservation, touching endpoints included, is reported free.
C1_PeriodOverlaps ==
    last.op = "period_overlaps" =>
        /\ last.ret = (\E i \in 1..Len(reservations) :
                          /\ last.start_dt < reservations[i].end_date
                          /\ last.end_dt > reservations[i].start_date)
        /\ (\A i \in 1..Len(reservations) :
               ~SharesMinute(reservations[i], last.start_dt, last.end_dt))
           => last.ret = FALSE

\* a query that ends where one reservation starts and starts where another ends,
\* answered "no overlap"
C1_Witness ==
    /\ last.op = "period_overlaps"
    /\ \E i \in 1..Len(reservations) : reservations[i].end_date = last.start_dt
    /\ \E i \in 1..Len(reservations) : reservations[i].start_date = last.end_dt
    /\ last.ret = FALSE

\* C2: date_not_available(t) is true exactly when some reservation r has
\* r.start <= t < r.end: the start is occupied, the end is not.
C2_DateNotAvailable ==
    last.op = "date_not_available" =>
        /\ last.ret = (\E i \in 1..Len(reservations) :
                          /\ reservations[i].start_date <= last.start_dt
                          /\ last.start_dt < reservations[i].end_date)
        /\ (\E i \in 1..Len(reservations) : reservations[i].start_date = last.start_dt)
           => last.ret = TRUE

\* an instant that is the end of a reservation and inside none, answered "available"
C2_Witness ==
    /\ last.op = "date_not_available"
    /\ \E i \in 1..Len(reservations) : reservations[i].end_date = last.start_dt
    /\ last.ret = FALSE

\* the reservations of name whose start is in the ISO calendar week of dt (same
\* ISO year, same ISO week number)
InIsoWeekOf(rs, name, dt) ==
    {i \in 1..Len(rs) :
        rs[i].name = name /\ IsoCalendar(rs[i].start_date) = IsoCalendar(dt)}

\* C3: two_reservations_per_week(subject, t) is true exactly when at least two
\* reservations of exactly that subject start in the ISO calendar week (ISO year
\* and ISO week number) of t.
C3_TwoPerIsoWeek ==
    last.op = "two_reservations_per_week" =>
        last.ret = (Cardinality(InIsoWeekOf(reservations, last.name, last.start_dt)) >= 2)

\* the first of periods that collides at start_dt, Len(periods) + 1 when none does
FirstColliding(rs, start_dt) ==
    LET bad == {k \in 1..Len(periods) :
                   period_overlaps(rs, start_dt, PlusMinutes(start_dt, periods[k]))}
    IN  IF bad = {} THEN Len(periods) + 1
        ELSE CHOOSE k \in bad : \A j \in bad : k <= j

\* C4: on a ledger sorted by start, next_available_datetime(desired) is the
\* earliest instant r >= desired whose half hour [r, r + 30) overlaps nothing.
C4_NextAvailableIsEarliest ==
    last.op = "next_available_datetime" =>
        /\ last.ret >= last.start_dt
        /\ ~period_overlaps(reservations, last.ret, PlusMinutes(last.ret, 30))
        /\ \A t \in last.start_dt..(last.ret - 1) :
               period_overlaps(reservations, t, PlusMinutes(t, 30))

\* the request falls in one reservation, is moved past it and the next one, and
\* stops at the gap before a third
C4_Witness ==
    /\ last.op = "next_available_datetime"
    /\ IsSortedByStart(reservations)
    /\ \E i, j, k \in 1..Len(reservations) :
           /\ i < j /\ j < k
           /\ reservations[i].start_date <= last.start_dt
           /\ last.start_dt < reservations[i].end_date
           /\ reservations[i].end_date <= reservations[j].start_date
           /\ reservations[j].end_date = last.ret
           /\ reservations[k].start_date >= PlusMinutes(last.ret, 30)

\* C5: available_periods(start) is the prefix of 30, 60, 90 that precedes the
\* first duration whose interval overlaps a reservation.
C5_AvailablePeriodsIsPrefix ==
    last.op = "available_periods" =>
        last.ret = SubSeq(periods, 1, FirstColliding(reservations, last.start_dt) - 1)

\* 30 minutes are free and 60 collide: only 30 is offered
C5_Witness ==
    /\ last.op = "available_periods"
    /\ last.ret = <<30>>
    /\ \E i \in 1..Len(reservations) :
           reservations[i].start_date = PlusMinutes(last.start_dt, 45)

-----------------------------------------------------------------------------
(* Claims about the mutators, checked under Spec *)

\* C6: from an empty or a loaded ledger, whatever make_reservation and
\* cancel_reservation calls follow, the ledger is sorted ascending by start.
C6_LedgerSorted == IsSortedByStart(reservations)

\* a reservation was just inserted before a later one of a full ledger
C6_Witness ==
    /\ last.op = "make_reservation"
    /\ Len(reservations) = MaxReservations
    /\ \E i \in 1..(Len(reservations) - 1) :
           /\ reservations[i] = Reservation(last.name, last.start_dt, last.end_dt)
           /\ reservations[i + 1].start_date > last.start_dt
           /\ i > 1

\* the positions of rs that cancel_reservation(name, start_dt) may match
Matches(rs, name, start_dt) ==
    {i \in 1..Len(rs) : rs[i].name = name /\ rs[i].start_date = start_dt}

\* C7: cancel_reservation(subject, start) removes exactly the first reservation
\* with that subject and that start, whatever its end, keeps every other one in
\* order and returns true; with no such reservation it returns false.
C7_CancelRemovesFirstMatch ==
    last.op = "cancel_reservation" =>
        LET M == Matches(last.before, last.name, last.start_dt)
        IN  IF M = {} THEN last.ret = FALSE
            ELSE LET k == CHOOSE i \in M : \A j \in M : i <= j
                 IN  /\ last.ret = TRUE
                     /\ Len(reservations) = Len(last.before) - 1
                     /\ \A i \in 1..Len(reservations) :
                            reservations[i] =
                                IF i < k THEN last.before[i] ELSE last.before[i + 1]

\* two reservations of the subject at that start, of different lengths: the
\* first went, the second stayed
C7_Witness ==
    /\ last.op = "cancel_reservation"
    /\ last.ret = TRUE
    /\ \E i, j \in Matches(last.before, last.name, last.start_dt) :
           /\ i < j
           /\ last.before[i].end_date # last.before[j].end_date
           /\ \E k \in 1..Len(reservations) : reservations[k] = last.before[j]
           /\ \A k \in 1..Len(reservations) : reservations[k] # last.before[i]

\* C8 as stated: a cancel_reservation repeated with the arguments of one that
\* just removed a reservation returns false and leaves the ledger unchanged.
C8_RepeatedCancelFails ==
    (last.op = "cancel_reservation" /\ last.repeated) =>
        (last.ret = FALSE /\ reservations = last.before)

\* C8: a cancel_reservation repeated with the arguments of one that just removed
\* a reservation returns false and leaves the ledger unchanged when no other
\* reservation with that subject and start was left; every cancel_reservation
\* that finds no match returns false and leaves the ledger unchanged.
C8_RepeatedCancel ==
    (last.op = "cancel_reservation"
        /\ Matches(last.before, last.name, last.start_dt) = {}) =>
        (last.ret = FALSE /\ reservations = last.before)

\* the second of two equal cancel_reservation calls found nothing, in a ledger
\* that still holds a reservation of that subject and one at that start
C8_Witness ==
    /\ last.op = "cancel_reservation"
    /\ last.repeated
    /\ last.ret = FALSE
    /\ reservations = last.before
    /\ \E i \in 1..Len(reservations) : reservations[i].name = last.name
    /\ \E i \in 1..Len(reservations) : reservations[i].start_date = last.start_dt

-----------------------------------------------------------------------------
(* Claims about the interactive loop, checked under SpecMain *)

\* the reservations of the subject of rs[i] that start in the ISO calendar week
\* in which rs[i] starts
SameSubjectAndWeek(rs, i) == InIsoWeekOf(rs, rs[i].name, rs[i].start_date)

\* C9: after startup and any bookings and cancellations, no subject holds more
\* than two reservations that start in the same ISO calendar week.
C9_AtMostTwoPerWeek ==
    \A i \in 1..Len(reservations) :
        Cardinality(SameSubjectAndWeek(reservations, i)) <= 2

\* the request of the last pass was inside one hour of the instant it was made
LeadTimeViolated == PlusMinutes(last.requested, 0 - 60) <= last.at

\* the subject of the last pass had reached the quota of the requested week
QuotaViolated == two_reservations_per_week(last.before, last.name, last.requested)

ViolatesBoth ==
    /\ last.op = "book"
    /\ last.ret \in {"quota", "lead_time"}
    /\ LeadTimeViolated
    /\ QuotaViolated

\* C10 as stated: a request that violates the lead-time rule and the weekly
\* quota is rejected by the lead-time rule and the quota check is not reached.
C10_LeadTimeBeforeQuota ==
    ViolatesBoth =>
        /\ last.ret = "lead_time"
        /\ \A k \in 1..Len(checks) : checks[k] # "two_reservations_per_week"

CheckOrder ==
    << "datetime_validation", "two_reservations_per_week",
       "one_hour_from_now_or_less", "date_not_available" >>

\* C10: the checks of a booking run in the order input validation, weekly quota,
\* one-hour lead time, occupancy, and the pass stops at the first that fails: a
\* request that violates the quota and the lead-time rule is rejected by the
\* quota and the lead-time check is not reached.
C10_QuotaBeforeLeadTime ==
    last.op = "book" =>
        /\ \A k \in 1..Len(checks) : k <= Len(CheckOrder) => checks[k] = CheckOrder[k]
        /\ last.ret = "invalid_datetime" => Len(checks) = 1
        /\ last.ret = "quota" => (Len(checks) = 2 /\ QuotaViolated)
        /\ last.ret = "lead_time" => (Len(checks) = 3 /\ LeadTimeViolated /\ ~QuotaViolated)
        /\ last.ret \in {"declined", "invalid_period", "booked"} =>
               (Len(checks) >= 4 /\ ~LeadTimeViolated /\ ~QuotaViolated)
        /\ ViolatesBoth =>
               /\ last.ret = "quota"
               /\ \A k \in 1..Len(checks) : checks[k] # "one_hour_from_now_or_less"

\* a request inside the hour, by a subject with two reservations in that week,
\* was rejected
C10_Witness ==
    /\ ViolatesBoth
    /\ Cardinality(InIsoWeekOf(last.before, last.name, last.requested)) = 2

\* C11: the booking workflow never inserts and the cancellation workflow never
\* removes a reservation whose start is one hour or less after the instant of
\* the check; a start exactly one hour ahead is rejected, a start one hour and
\* one minute ahead passes the lead-time check, and a booking moved to the
\* offered instant starts more than one hour ahead.
C11_LeadTime ==
    last.op \in {"book", "cancel"} =>
        /\ reservations # last.before => PlusMinutes(last.start_dt, 0 - 60) > last.at
        /\ last.requested = PlusMinutes(last.at, 60) =>
               /\ reservations = last.before
               /\ last.op = "book" => last.ret \in {"quota", "lead_time"}
               /\ last.op = "cancel" => last.ret = "lead_time"
        /\ last.requested = PlusMinutes(last.at, 61) => last.ret # "lead_time"

\* a request one hour and one minute ahead found its start occupied and was
\* booked at the offered, later instant
C11_Witness ==
    /\ last.op = "book"
    /\ last.ret = "booked"
    /\ last.requested = PlusMinutes(last.at, 61)
    /\ last.start_dt > last.requested
    /\ \E i \in 1..Len(reservations) :
           reservations[i] = Reservation(last.name, last.start_dt, last.end_dt)

\* no two reservations of rs overlap
NoTwoOverlap(rs) ==
    \A i, j \in 1..Len(rs) :
        i # j => ~(rs[i].start_date < rs[j].end_date /\ rs[i].end_date > rs[j].start_date)

\* C12: from a store in which no two reservations overlap, after any bookings
\* and cancellations no two reservations of the ledger overlap; a booking
\* inserts [start, start + d) only for a d that available_periods(start)
\* returned on the ledger it was made on.
C12_NoOverlap ==
    /\ NoTwoOverlap(reservations)
    /\ (last.op = "book" /\ reservations # last.before) =>
           \E k \in 1..Len(available_periods(last.before, last.start_dt)) :
               PlusMinutes(last.start_dt,
                           available_periods(last.before, last.start_dt)[k]) = last.end_dt

\* a booking of the longest period offered, shorter than 90 minutes, that ends
\* where the next reservation starts and starts where the one before it ends
C12_Witness ==
    /\ last.op = "book"
    /\ last.ret = "booked"
    /\ Len(available_periods(last.before, last.start_dt)) < Len(periods)
    /\ \E i \in 2..(Len(reservations) - 1) :
           /\ reservations[i] = Reservation(last.name, last.start_dt, last.end_dt)
           /\ reservations[i - 1].end_date = last.start_dt
           /\ reservations[i + 1].start_date = last.end_dt

\* C13: when the persistence call of a booking or of a cancellation fails, the
\* ledger in memory is the ledger from before that operation.
C13_AtomicOnPersistenceFailure ==
    (last.op \in {"book", "cancel"} /\ last.ret = "persistence_failed") =>
        reservations = last.before

\* the last pass of the booking loop was stopped by a declined offer
Declined == last.op = "book" /\ last.ret = "declined"

\* C14 as stated: a declined offer returns control to the main menu without
\* inserting anything, and no booking pass follows it without a new menu choice.
C14_DeclineReturnsToMenu ==
    /\ Declined => (pc = "menu" /\ reservations = last.before)
    /\ last.op = "book" => ~last.repeated

\* C14: a declined offer (any answer other than yes) inserts nothing and keeps
\* the workflow in the booking loop, which asks for a date and time again for
\* the same name; a rejection by the quota, the lead time, an invalid date or
\* an invalid period inserts nothing and returns to the main menu.
C14_DeclineAsksAgain ==
    /\ Declined =>
           /\ reservations = last.before
           /\ pc = "booking"
           /\ usr_name = last.name
           /\ date_not_available(last.before, last.requested)
    /\ (last.op = "book"
          /\ last.ret \in {"quota", "lead_time", "invalid_datetime", "invalid_period"}) =>
           (reservations = last.before /\ pc \in {"menu", "exited"} /\ usr_name = "")

\* a booking was made in the pass that followed a declined offer, with no
\* menu choice in between
C14_Witness ==
    /\ last.op = "book"
    /\ last.repeated
    /\ last.ret = "booked"
    /\ pc = "menu"
    /\ Len(reservations) = Len(last.before) + 1

\* the multiset of the (subject, start, end) of the reservations of rs
LedgerBag(rs) ==
    [r \in {rs[i] : i \in 1..Len(rs)} |-> Cardinality({i \in 1..Len(rs) : rs[i] = r})]

\* C15: while every persistence call succeeds, after the startup load and after
\* every booking and cancellation the store and the ledger hold the same
\* multiset of (subject, start, end).
C15_StoreMirrorsLedger ==
    pc \in {"menu", "booking", "exited"} => LedgerBag(reservations) = db

\* a cancellation took one of two reservations of a subject out of the ledger
\* and out of the store, after a booking had put one into both
C15_Witness ==
    /\ last.op = "cancel"
    /\ last.ret = "cancelled"
    /\ pc = "menu"
    /\ Len(reservations) = Len(last.before) - 1
    /\ BagCardinality(db) = Len(reservations)
    /\ \E i \in 1..Len(reservations) :
           /\ reservations[i].name = last.name
           /\ \A t \in InitialTables : ~BagIn(reservations[i], t)
           /\ BagIn(reservations[i], db)

-----------------------------------------------------------------------------
(* Claims about the exports, checked under SpecExport *)

\* the positions of the reservations of rs that start on a day of [start_date, end_date]
InRange(rs, start_date, end_date) ==
    {i \in 1..Len(rs) :
        start_date <= DateOf(rs[i].start_date) /\ DateOf(rs[i].start_date) <= end_date}

\* the k-th smallest member of the set of positions I
Nth(I, k) == CHOOSE i \in I : Cardinality({j \in I : j < i}) = k - 1

\* the entries of a grouped export in file order, each with the key it is under
RECURSIVE EntriesFrom(_, _)
EntriesFrom(object, k) ==
    IF k > Len(object) THEN <<>>
    ELSE [j \in 1..Len(object[k].value) |->
             [key |-> object[k].key, entry |-> object[k].value[j]]]
         \o EntriesFrom(object, k + 1)

\* C16: both exports of save_schedule hold exactly the reservations that start
\* on a day of [startDate, endDate], each once and in ledger order; the grouped
\* export lists each under the day of its start, and each day once.
C16_ExportIsRangeInOrder ==
    last.op = "save_schedule" =>
        \A I \in {InRange(reservations, last.start_dt, last.end_dt)} :
            /\ last.name = "csv" =>
                   /\ Len(last.ret.rows) = Cardinality(I)
                   /\ \A k \in 1..Len(last.ret.rows) :
                          \A r \in {reservations[Nth(I, k)]}, row \in {last.ret.rows[k]} :
                              /\ row.name = r.name
                              /\ row.start_date = strftime(r.start_date, "%d.%m.%Y %H:%M")
                              /\ row.end_date = strftime(r.end_date, "%d.%m.%Y %H:%M")
            /\ last.name = "json" =>
                   \A E \in {EntriesFrom(last.ret.object, 1)} :
                       /\ Len(E) = Cardinality(I)
                       /\ \A k \in 1..Len(E) :
                              \A r \in {reservations[Nth(I, k)]} :
                                  /\ E[k].key = strftime(r.start_date, "%d.%m.%Y")
                                  /\ E[k].entry.name = r.name
                                  /\ E[k].entry.start_time = strftime(r.start_date, "%H:%M")
                                  /\ E[k].entry.end_time = strftime(r.end_date, "%H:%M")
                       /\ \A a, b \in 1..Len(last.ret.object) :
                              a # b => last.ret.object[a].key # last.ret.object[b].key
                       /\ \A a \in 1..Len(last.ret.object) : last.ret.object[a].value # <<>>

\* a grouped export of one day: the two reservations that start on it under its
\* key, and not the one that starts the evening before and ends on it
C16_Witness ==
    /\ last.op = "save_schedule"
    /\ last.name = "json"
    /\ last.start_dt = last.end_dt
    /\ Len(reservations) = 3
    /\ DateOf(reservations[1].start_date) < last.start_dt
    /\ DateOf(reservations[1].end_date) = last.start_dt
    /\ Len(last.ret.object) = 1
    /\ Len(last.ret.object[1].value) = 2
    /\ last.ret.object[1].key = <<22, 5, 2023>>

\* reading back a timestamp written as "%d.%m.%Y %H:%M"
ParseTimestamp(text) == DateTime(text[3], text[2], text[1], text[4], text[5])

\* reading back a time written as "%H:%M" under a day key written as "%d.%m.%Y"
ParseUnderDay(key, text) == DateTime(key[3], key[2], key[1], text[1], text[2])

\* the reservation read back from a row of the tabular export
FromRow(row) ==
    Reservation(row.name, ParseTimestamp(row.start_date), ParseTimestamp(row.end_date))

\* the reservation read back from an entry of the grouped export
FromEntry(e) ==
    Reservation(e.entry.name, ParseUnderDay(e.key, e.entry.start_time),
                ParseUnderDay(e.key, e.entry.end_time))

\* C17 as stated: every exported entry, of the tabular and of the grouped export,
\* reads back as the subject, start and end of the reservation it was written for.
C17_RoundTrip ==
    last.op = "save_schedule" =>
        \A I \in {InRange(reservations, last.start_dt, last.end_dt)} :
            /\ \A k \in 1..Len(last.ret.rows) :
                   FromRow(last.ret.rows[k]) = reservations[Nth(I, k)]
            /\ \A E \in {EntriesFrom(last.ret.object, 1)} :
                   \A k \in 1..Len(E) : FromEntry(E[k]) = reservations[Nth(I, k)]

\* the days from the day dt1 is on to the day dt2 is on
DaysBetween(dt1, dt2) == DateOf(dt2) - DateOf(dt1)

\* C17: every row of the tabular export reads back as the subject, start and end
\* of its reservation, also when the end is on a later day than the start; every
\* entry of the grouped export reads back as its subject and start, and as its
\* end when the end is on the day of the start: otherwise as the time of day of
\* the end on the day of the start.
C17_RoundTripWithinDay ==
    last.op = "save_schedule" =>
        \A I \in {InRange(reservations, last.start_dt, last.end_dt)} :
            /\ \A k \in 1..Len(last.ret.rows) :
                   FromRow(last.ret.rows[k]) = reservations[Nth(I, k)]
            /\ \A E \in {EntriesFrom(last.ret.object, 1)} :
                   \A k \in 1..Len(E) :
                       \A r \in {reservations[Nth(I, k)]}, e \in {FromEntry(E[k])} :
                           /\ e.name = r.name
                           /\ e.start_date = r.start_date
                           /\ e.end_date = PlusMinutes(r.end_date,
                                  0 - DaysBetween(r.start_date, r.end_date) * MinutesPerDay)
                           /\ DaysBetween(r.start_date, r.end_date) = 0 => e = r

\* a grouped export with an entry that reads back whole and an entry, of a
\* reservation that ends after midnight, that reads back with its end before
\* its start
C17_Witness ==
    /\ last.op = "save_schedule"
    /\ last.name = "json"
    /\ \E E \in {EntriesFrom(last.ret.object, 1)} :
           \E j, k \in 1..Len(E) :
               /\ FromEntry(E[j]) = reservations[j]
               /\ FromEntry(E[k]).name = reservations[k].name
               /\ FromEntry(E[k]).start_date = reservations[k].start_date
               /\ DateOf(reservations[k].end_date) > DateOf(reservations[k].start_date)
               /\ FromEntry(E[k]).end_date < FromEntry(E[k]).start_date

-----------------------------------------------------------------------------
(* More claims about the mutators, checked under Spec *)

\* the position make_reservation is to give a reservation that starts at
\* start_dt: that of the first reservation of rs that starts later, the end of
\* the list when there is none
LandingPosition(rs, start_dt) ==
    LET later == {i \in 1..Len(rs) : rs[i].start_date > start_dt}
    IN  IF later = {} THEN Len(rs) + 1
        ELSE CHOOSE i \in later : \A j \in later : i <= j

\* C18: make_reservation(subject, start, end) puts the reservation right before
\* the first reservation that starts strictly later, at the end when there is
\* none, so after every reservation with the same start; the ledger grows by
\* one and every earlier reservation is unchanged and keeps its relative order;
\* nothing is checked for overlap or duplication.
C18_MakeReservationLands ==
    last.op = "make_reservation" =>
        \A k \in {LandingPosition(last.before, last.start_dt)} :
            /\ Len(reservations) = Len(last.before) + 1
            /\ reservations[k] = Reservation(last.name, last.start_dt, last.end_dt)
            /\ \A i \in 1..Len(last.before) :
                   /\ i < k => reservations[i] = last.before[i]
                   /\ i >= k => reservations[i + 1] = last.before[i]
                   /\ last.before[i].start_date = last.start_dt => i < k

\* a reservation equal to one of the ledger was inserted: it landed right after
\* its equal and before a reservation that starts later, which it overlaps
C18_Witness ==
    /\ last.op = "make_reservation"
    /\ \E k \in 2..(Len(reservations) - 1) :
           /\ k = LandingPosition(last.before, last.start_dt)
           /\ reservations[k] = Reservation(last.name, last.start_dt, last.end_dt)
           /\ reservations[k - 1] = reservations[k]
           /\ reservations[k + 1].start_date > last.start_dt
           /\ reservations[k + 1].start_date < last.end_dt

-----------------------------------------------------------------------------
(* More claims about the queries, checked under SpecQuery *)

\* the period d is among those available_periods(start_dt) returns
Offers(rs, start_dt, d) ==
    \E avl \in {available_periods(rs, start_dt)} : \E k \in 1..Len(avl) : avl[k] = d

\* C19: on a ledger sorted by start, the instant next_available_datetime(t)
\* offers can be booked: available_periods of it contains 30.
C19_OfferedInstantIsBookable ==
    (last.op = "next_available_datetime" /\ IsSortedByStart(reservations)) =>
        Offers(reservations, last.ret, 30)

\* the request was occupied, the offered instant is later, and 30 minutes is
\* all that can be booked there
C19_Witness ==
    /\ last.op = "next_available_datetime"
    /\ IsSortedByStart(reservations)
    /\ date_not_available(reservations, last.start_dt)
    /\ last.ret > last.start_dt
    /\ available_periods(reservations, last.ret) = <<30>>

\* the period d, booked from start_dt, collides with a reservation of rs
Collides(rs, start_dt, d) == period_overlaps(rs, start_dt, PlusMinutes(start_dt, d))

\* C20: on a ledger whose reservations all end after they start, stopping at
\* the first colliding period loses nothing: available_periods(start) is the
\* list of all the periods of 30, 60, 90 that do not collide, since a period
\* that collides makes every longer one collide; it is empty when
\* date_not_available(start) is true.
C20_AvailablePeriodsIsFilter ==
    (last.op = "available_periods"
        /\ \A i \in 1..Len(reservations) :
               reservations[i].end_date > reservations[i].start_date) =>
        /\ last.ret = SelectSeq(periods, LAMBDA d : ~Collides(reservations, last.start_dt, d))
        /\ \A j, k \in 1..Len(periods) :
               (j < k /\ Collides(reservations, last.start_dt, periods[j])) =>
                   Collides(reservations, last.start_dt, periods[k])
        /\ date_not_available(reservations, last.start_dt) => last.ret = <<>>

\* the start is inside a reservation, after its start, and before two more:
\* nothing is offered
C20_Witness ==
    /\ last.op = "available_periods"
    /\ last.ret = <<>>
    /\ Len(reservations) = 3
    /\ reservations[1].start_date < last.start_dt
    /\ last.start_dt < reservations[1].end_date
    /\ reservations[2].start_date > last.start_dt
    /\ date_not_available(reservations, last.start_dt)

-----------------------------------------------------------------------------
(* A claim about make_reservation and cancel_reservation together, checked *)
(* under Spec *)

\* the last call is a cancel_reservation(subject, start) made right after
\* make_reservation(subject, start, end)
UndoesMake == last.op = "cancel_reservation" /\ last.made.is

\* C21 as stated: make_reservation(subject, start, end) followed at once by
\* cancel_reservation(subject, start) returns true and leaves the ledger the
\* sequence it was before the insertion, also when the ledger held a
\* reservation of that subject and start with another end.
C21_MakeThenCancelRestores ==
    UndoesMake => (last.ret = TRUE /\ reservations = last.made.before)

\* C21: make_reservation(subject, start, end) followed at once by
\* cancel_reservation(subject, start) returns true and leaves a ledger as long
\* as before the insertion; it is the sequence from before the insertion when
\* that held no reservation of that subject and start; when it held one, the
\* first such is gone and the inserted reservation is where make_reservation
\* put it, one place down.
C21_MakeThenCancel ==
    UndoesMake =>
        \A old \in {last.made.before} :
            /\ last.ret = TRUE
            /\ Len(reservations) = Len(old)
            /\ Matches(old, last.name, last.start_dt) = {} => reservations = old
            /\ Matches(old, last.name, last.start_dt) # {} =>
                   \A first \in {CHOOSE i \in Matches(old, last.name, last.start_dt) :
                                     \A j \in Matches(old, last.name, last.start_dt) : i <= j},
                      k \in {LandingPosition(old, last.start_dt)} :
                       /\ reservations[k - 1] =
                              Reservation(last.name, last.start_dt, last.made.end_dt)
                       /\ \A i \in 1..Len(old) :
                              /\ i < first => reservations[i] = old[i]
                              /\ (first < i /\ i < k) => reservations[i - 1] = old[i]
                              /\ i >= k => reservations[i] = old[i]

\* a reservation was inserted between two others, one of them of another
\* subject at the same start, and cancelled at once: the ledger is as before
C21_Witness ==
    /\ UndoesMake
    /\ last.ret = TRUE
    /\ Len(last.made.before) = 2
    /\ LandingPosition(last.made.before, last.start_dt) = 2
    /\ last.made.before[1].start_date = last.start_dt
    /\ Matches(last.made.before, last.name, last.start_dt) = {}
    /\ reservations = last.made.before

====
